---- MODULE Spec2Model ----
(***************************************************************************)
(* Model of image_converter.py: the ImageConverter class (construction,    *)
(* find_images, convert_image, convert_all) and main().                    *)
(*                                                                         *)
(* File names are sequences of one-character strings, so that pathlib's    *)
(* suffix / stem / lower() and the ordering used by sorted() are computed  *)
(* character by character.  The file system is the input folder's entries  *)
(* (with what the codec makes of each image file) and the output folder    *)
(* (whether it exists, and the files in it).                               *)
(***************************************************************************)
EXTENDS Integers, Sequences, FiniteSets, TLC

VARIABLES
    quality,        \* args.quality
    inputKind,      \* what args.input_folder names: "missing", "file" or "dir"
    entries,        \* entries below the input folder: [name, kind, depth]
    content,        \* image file name -> [mode, fault]: what decoding / saving it does
    pilRemoves,     \* whether the installed Pillow removes a file it created when save fails
    mkdirOk,        \* whether the output folder can be created when it is absent
    outExists,      \* the output folder exists
    outFiles,       \* files of the output folder: name -> [src, mode, q, bytes]
    pc,             \* position of main(): validate, construct, find, loop, report, exit
    run,            \* number of the current invocation: 1, then 2
    images,         \* local images of convert_all
    i,              \* index of the for loop of convert_all (1-based)
    converted,      \* local converted of convert_all
    failed,         \* local failed of convert_all
    stats,          \* the dictionary convert_all returned, NoStats before
    exitCode,       \* process exit status, -1 while running
    cancelled,      \* KeyboardInterrupt was raised in this invocation
    attempts,       \* log of convert_image calls of this invocation
    startOut,       \* output folder at the start of this invocation
    prev            \* result of the previous invocation

vars == <<quality, inputKind, entries, content, pilRemoves, mkdirOk, outExists,
          outFiles, pc, run, images, i, converted, failed, stats,
          exitCode, cancelled, attempts, startOut, prev>>

env == <<quality, inputKind, entries, content, pilRemoves, mkdirOk>>

-----------------------------------------------------------------------------
(* Bounds *)

MaxFiles == 2

MaxEntries == 3

-----------------------------------------------------------------------------
(* Characters and strings *)

UpperChars == <<"A","B","C","D","E","F","G","H","I","J","K","L","M",
                "N","O","P","Q","R","S","T","U","V","W","X","Y","Z">>

LowerChars == <<"a","b","c","d","e","f","g","h","i","j","k","l","m",
                "n","o","p","q","r","s","t","u","v","w","x","y","z">>

\* Code point order of the characters used: "." < "A".."Z" < "a".."z"
CodeOrder == <<".">> \o UpperChars \o LowerChars

Ord(c) == CHOOSE k \in 1..Len(CodeOrder) : CodeOrder[k] = c

\* str.lower() without the conversion (mutant)
LowerChar_Identity(c) == c

\* str.lower() on one character
LowerChar(c) ==
    IF \E k \in 1..Len(UpperChars) : UpperChars[k] = c
    THEN LowerChars[CHOOSE k \in 1..Len(UpperChars) : UpperChars[k] = c]
    ELSE c

Lower(s) == [k \in 1..Len(s) |-> LowerChar(s[k])]

\* Index of the last "." of a name, 0 when there is none
LastDot(name) ==
    IF \E k \in 1..Len(name) : name[k] = "."
    THEN CHOOSE k \in 1..Len(name) :
            /\ name[k] = "."
            /\ \A j \in (k+1)..Len(name) : name[j] # "."
    ELSE 0

\* PurePath.suffix: the last dot must be neither the first nor the last character
Suffix(name) ==
    LET d == LastDot(name) IN
    IF 1 < d /\ d < Len(name) THEN SubSeq(name, d, Len(name)) ELSE <<>>

\* PurePath.stem
Stem(name) ==
    LET d == LastDot(name) IN
    IF 1 < d /\ d < Len(name) THEN SubSeq(name, 1, d - 1) ELSE name

\* Ordering of two paths below the same folder: that of their name strings
PathLess(a, b) ==
    \E k \in 1..(Len(a) + 1) :
        /\ \A j \in 1..(k-1) : j <= Len(b) /\ a[j] = b[j]
        /\ k <= Len(b)
        /\ (k = Len(a) + 1 \/ Ord(a[k]) < Ord(b[k]))

RECURSIVE Sorted(_)
\* sorted(images)
Sorted(S) ==
    IF S = {} THEN <<>>
    ELSE LET m == CHOOSE x \in S : \A y \in S \ {x} : PathLess(x, y)
         IN <<m>> \o Sorted(S \ {m})

-----------------------------------------------------------------------------
(* ImageConverter *)

SUPPORTED_FORMATS == { <<".","j","p","g">>, <<".","j","p","e","g">>, <<".","p","n","g">> }

WebpSuffix == <<".","w","e","b","p">>

\* The entries iterdir() yields: the immediate ones
IterDir(ents) == { e \in ents : e.depth = 1 }

\* find_images
FindImages(ents) ==
    Sorted({ e.name : e \in { x \in IterDir(ents) :
                x.kind = "file" /\ Lower(Suffix(x.name)) \in SUPPORTED_FORMATS } })

\* The mode chain of convert_image with the LA branch missing (mutant)
NormalizeMode_NoLA(mode) ==
    IF mode = "P" THEN "RGBA"
    ELSE IF mode = "RGB" THEN "RGB"
    ELSE IF mode = "RGBA" THEN "RGBA"
    ELSE "RGB"

\* The mode chain of convert_image: the mode of img when it is saved
NormalizeMode(mode) ==
    IF mode = "P" THEN "RGBA"
    ELSE IF mode = "LA" THEN "RGBA"
    ELSE IF mode = "RGB" THEN "RGB"
    ELSE IF mode = "RGBA" THEN "RGBA"
    ELSE "RGB"

\* What the codec makes of the file of that name
ContentOf(name) ==
    IF name \in DOMAIN content THEN content[name]
    ELSE [mode |-> "P", fault |-> "decode"]

Put(files, name, data) ==
    [n \in (DOMAIN files) \cup {name} |-> IF n = name THEN data ELSE files[n]]

\* img.save opening the target for appending instead of truncating it (mutant)
Save_Append(files, name, img, fault) ==
    IF name \in DOMAIN files
    THEN Put(files, name, [img EXCEPT !.bytes = "appended"])
    ELSE Put(files, name, img)

\* img.save(output_path, 'WEBP', ...): the target is opened "w+b" (created or
\* truncated), the image is encoded, then written.  When the encoder or the
\* write raises, the file stays as it is at that point, unless Pillow created
\* it and is a version that removes it.
Save(files, name, img, fault) ==
    IF fault = "none" THEN Put(files, name, img)
    ELSE IF pilRemoves /\ name \notin DOMAIN files THEN files
    ELSE Put(files, name,
             [img EXCEPT !.bytes = IF fault = "encode" THEN "empty" ELSE "partial"])

\* stem + '.webp'
OutputFilename(image_path) == Stem(image_path) \o WebpSuffix

\* convert_image: the result, the output folder afterwards, and the mode handed
\* to the encoder ("none" when save is not reached)
ConvertImage(image_path, exists, files) ==
    LET c == ContentOf(image_path) IN
    IF ~exists /\ ~mkdirOk
    THEN [ok |-> FALSE, exists |-> exists, files |-> files,
          src |-> c.mode, enc |-> "none"]
    ELSE IF c.fault = "decode"
    THEN [ok |-> FALSE, exists |-> TRUE, files |-> files,
          src |-> c.mode, enc |-> "none"]
    ELSE LET mode == NormalizeMode(c.mode)
             img == [src |-> image_path, mode |-> mode, q |-> quality, bytes |-> "full"]
         IN [ok |-> c.fault = "none", exists |-> TRUE,
             files |-> Save(files, OutputFilename(image_path), img, c.fault),
             src |-> c.mode, enc |-> mode]

-----------------------------------------------------------------------------
(* The file systems and codec behaviours the model starts from *)

Modes == {"P", "LA", "RGB", "RGBA", "L", "CMYK", "1"}

Faults == {"none", "decode", "encode", "write"}

\* Mode of the image files of whole runs of main()
RunModes == {"RGB"}

Qualities == {-1, 0, 100, 101}

AJpg == <<"a",".","j","p","g">>

APng == <<"a",".","p","n","g">>

BJpgUpper == <<"B",".","J","P","G">>

CJpeg == <<"c",".","j","p","e","g">>

AWebp == <<"a",".","w","e","b","p">>

\* Names of the files that hold JPEG or PNG data
ImageNames == {AJpg, APng, BJpgUpper, CJpeg}

File(name) == [name |-> name, kind |-> "file", depth |-> 1]

\* Candidate entries: images, other files, a file without a stem, a directory
\* named like an image, and an image inside a subdirectory
Pool ==
    { File(n) : n \in ImageNames } \cup
    { File(<<"n",".","t","x","t">>), File(<<"d",".","g","i","f">>), File(AWebp),
      File(<<".","p","n","g">>), File(<<"r","e","a","d","m","e">>),
      [name |-> <<"e",".","p","n","g">>, kind |-> "dir", depth |-> 1],
      [name |-> <<"f",".","j","p","g">>, kind |-> "file", depth |-> 2] }

Folders(max) == { S \in SUBSET Pool : Cardinality(S) <= max }

DataOf(ents) == { e.name : e \in { x \in ents : x.depth = 1 /\ x.kind = "file" } } \cap ImageNames

NoFiles == [n \in {} |-> 0]

\* An output file left by something else
Stale == [src |-> <<>>, mode |-> "RGB", q |-> 0, bytes |-> "full"]

NoStats == [total |-> -1, converted |-> -1, failed |-> -1]

NoPrev == [done |-> FALSE, stats |-> NoStats, exists |-> FALSE, files |-> NoFiles]

\* The output folder before the first run: absent (creatable or not), empty,
\* or holding a file named a.webp
InitOutput ==
    \/ outExists = FALSE /\ outFiles = NoFiles /\ mkdirOk \in BOOLEAN
    \/ outExists = TRUE /\ mkdirOk = TRUE /\ outFiles \in {NoFiles, Put(NoFiles, AWebp, Stale)}

InitProcess ==
    /\ run = 1
    /\ images = <<>>
    /\ i = 0
    /\ converted = 0
    /\ failed = 0
    /\ stats = NoStats
    /\ exitCode = -1
    /\ cancelled = FALSE
    /\ attempts = <<>>
    /\ startOut = [exists |-> outExists, files |-> outFiles]
    /\ prev = NoPrev

Init ==
    /\ quality \in Qualities
    /\ inputKind \in {"missing", "file", "dir"}
    /\ entries \in Folders(MaxFiles)
    /\ inputKind # "dir" => entries = {}
    /\ content \in [DataOf(entries) -> [mode : RunModes, fault : Faults]]
    /\ pilRemoves \in BOOLEAN
    /\ InitOutput
    /\ pc = "validate"
    /\ InitProcess

-----------------------------------------------------------------------------
(* main() *)

\* The quality check of main without its bounds (mutant)
QualityOk_Unchecked(q) == TRUE

\* 0 <= args.quality <= 100
QualityOk(q) == 0 <= q /\ q <= 100

\* main, validate quality: exit status 1 before anything is constructed
Validate ==
    /\ pc = "validate"
    /\ IF QualityOk(quality)
       THEN pc' = "construct" /\ exitCode' = exitCode
       ELSE pc' = "exit" /\ exitCode' = 1
    /\ UNCHANGED <<env, outExists, outFiles, run, images, i, converted,
                   failed, stats, cancelled, attempts, startOut, prev>>

\* ImageConverter.__init__ called from main: it stores its arguments (the
\* output folder it resolves is the one outExists and outFiles describe) and
\* checks the input folder; FileNotFoundError and NotADirectoryError are caught
\* by main, which exits with status 1
Construct ==
    /\ pc = "construct"
    /\ IF inputKind = "dir"
       THEN pc' = "find" /\ exitCode' = exitCode
       ELSE pc' = "exit" /\ exitCode' = 1
    /\ UNCHANGED <<env, outExists, outFiles, run, images, i, converted, failed, stats,
                   cancelled, attempts, startOut, prev>>

\* convert_all up to its loop, creating the output folder first (mutant)
ConvertAllBegin_Mkdir ==
    /\ pc = "find"
    /\ images' = FindImages(entries)
    /\ outExists' = (outExists \/ mkdirOk)
    /\ IF images' = <<>>
       THEN /\ stats' = [total |-> 0, converted |-> 0, failed |-> 0]
            /\ pc' = "report"
            /\ UNCHANGED <<i, converted, failed>>
       ELSE /\ i' = 1 /\ converted' = 0 /\ failed' = 0
            /\ pc' = "loop"
            /\ stats' = stats
    /\ UNCHANGED <<env, outFiles, run, exitCode, cancelled,
                   attempts, startOut, prev>>

\* convert_all up to its loop: find_images, and the early return when it finds nothing
ConvertAllBegin ==
    /\ pc = "find"
    /\ images' = FindImages(entries)
    /\ IF images' = <<>>
       THEN /\ stats' = [total |-> 0, converted |-> 0, failed |-> 0]
            /\ pc' = "report"
            /\ UNCHANGED <<i, converted, failed>>
       ELSE /\ i' = 1 /\ converted' = 0 /\ failed' = 0
            /\ pc' = "loop"
            /\ stats' = stats
    /\ UNCHANGED <<env, outExists, outFiles, run, exitCode, cancelled,
                   attempts, startOut, prev>>

\* The counters after one file, a failure left uncounted (mutant)
Count_SkipFailed(conv, fail, ok) == IF ok THEN <<conv + 1, fail>> ELSE <<conv, fail>>

\* The counters after one file: converted += 1 or failed += 1
Count(conv, fail, ok) == IF ok THEN <<conv + 1, fail>> ELSE <<conv, fail + 1>>

\* The loop index after one file, leaving the loop on a failure (mutant)
Advance_BreakOnFailure(k, ok, n) == IF ok THEN k + 1 ELSE n + 1

\* The loop index after one file: the for loop goes on whatever the result
Advance(k, ok, n) == k + 1

\* One iteration of the loop of convert_all: convert_image on the next file
ConvertStep ==
    /\ pc = "loop"
    /\ i <= Len(images)
    /\ LET r == ConvertImage(images[i], outExists, outFiles)
           c == Count(converted, failed, r.ok)
       IN /\ outExists' = r.exists
          /\ outFiles' = r.files
          /\ converted' = c[1]
          /\ failed' = c[2]
          /\ i' = Advance(i, r.ok, Len(images))
          /\ attempts' = Append(attempts,
                [file |-> images[i], ok |-> r.ok, src |-> r.src, enc |-> r.enc])
    /\ UNCHANGED <<env, pc, run, images, stats, exitCode, cancelled,
                   startOut, prev>>

\* The return of convert_all after the loop
ReturnStats ==
    /\ pc = "loop"
    /\ i > Len(images)
    /\ stats' = [total |-> Len(images), converted |-> converted, failed |-> failed]
    /\ pc' = "report"
    /\ UNCHANGED <<env, outExists, outFiles, run, images, i, converted,
                   failed, exitCode, cancelled, attempts, startOut, prev>>

\* The exit status after the report, failures ignored (mutant)
ExitStatus_Zero(st) == 0

\* The exit status after the report: sys.exit(1) when stats['failed'] > 0
ExitStatus(st) == IF st["failed"] > 0 THEN 1 ELSE 0

\* main after convert_all: print the results and exit
Report ==
    /\ pc = "report"
    /\ exitCode' = ExitStatus(stats)
    /\ pc' = "exit"
    /\ UNCHANGED <<env, outExists, outFiles, run, images, i, converted,
                   failed, stats, cancelled, attempts, startOut, prev>>

\* KeyboardInterrupt inside the try block of main.  convert_image catches
\* Exception only, so an interrupt raised inside it leaves what the call had
\* done: nothing yet, the output folder created, or the target opened for
\* writing and not completed.
Interrupt ==
    /\ pc \in {"construct", "find", "loop", "report"}
    /\ \/ UNCHANGED <<outExists, outFiles>>
       \/ /\ pc = "loop" /\ i <= Len(images)
          /\ ~outExists /\ mkdirOk
          /\ outExists' = TRUE
          /\ outFiles' = outFiles
       \/ /\ pc = "loop" /\ i <= Len(images)
          /\ outExists \/ mkdirOk
          /\ ContentOf(images[i]).fault # "decode"
          /\ outExists' = TRUE
          /\ outFiles' = Put(outFiles, OutputFilename(images[i]),
                 [src |-> images[i], mode |-> NormalizeMode(ContentOf(images[i]).mode),
                  q |-> quality, bytes |-> "partial"])
    /\ cancelled' = TRUE
    /\ exitCode' = 1
    /\ pc' = "exit"
    /\ UNCHANGED <<env, run, images, i, converted, failed, stats,
                   attempts, startOut, prev>>

\* The program is invoked again with the same arguments on the same folders
Rerun ==
    /\ pc = "exit"
    /\ run = 1
    /\ run' = run + 1
    /\ prev' = [done |-> (stats # NoStats /\ ~cancelled), stats |-> stats,
                exists |-> outExists, files |-> outFiles]
    /\ startOut' = [exists |-> outExists, files |-> outFiles]
    /\ pc' = "validate"
    /\ images' = <<>>
    /\ i' = 0
    /\ converted' = 0
    /\ failed' = 0
    /\ stats' = NoStats
    /\ exitCode' = -1
    /\ cancelled' = FALSE
    /\ attempts' = <<>>
    /\ UNCHANGED <<env, outExists, outFiles>>

Next ==
    \/ Validate
    \/ Construct
    \/ ConvertAllBegin
    \/ ConvertStep
    \/ ReturnStats
    \/ Report
    \/ Interrupt
    \/ Rerun

Spec == Init /\ [][Next]_vars

-----------------------------------------------------------------------------
(* find_images on folders of up to MaxEntries entries *)

InitFind ==
    /\ quality = 100
    /\ inputKind = "dir"
    /\ entries \in Folders(MaxEntries)
    /\ content = [n \in DataOf(entries) |-> [mode |-> "RGB", fault |-> "none"]]
    /\ pilRemoves = TRUE
    /\ mkdirOk = TRUE
    /\ outExists = FALSE
    /\ outFiles = NoFiles
    /\ pc = "find"
    /\ InitProcess

NextFind == ConvertAllBegin

SpecFind == InitFind /\ [][NextFind]_vars

-----------------------------------------------------------------------------
(* convert_image on one image of every mode *)

InitConvert ==
    /\ quality \in {0, 100}
    /\ inputKind = "dir"
    /\ \E n \in ImageNames :
        /\ entries = {File(n)}
        /\ images = <<n>>
    /\ content \in [DataOf(entries) -> [mode : Modes, fault : Faults]]
    /\ pilRemoves \in BOOLEAN
    /\ InitOutput
    /\ pc = "loop"
    /\ run = 1
    /\ i = 1
    /\ converted = 0
    /\ failed = 0
    /\ stats = NoStats
    /\ exitCode = -1
    /\ cancelled = FALSE
    /\ attempts = <<>>
    /\ startOut = [exists |-> outExists, files |-> outFiles]
    /\ prev = NoPrev

NextConvert == ConvertStep

SpecConvert == InitConvert /\ [][NextConvert]_vars

-----------------------------------------------------------------------------
(* Properties *)

\* The run of convert_all has returned
Returned == stats # NoStats

AttemptedFiles == [k \in 1..Len(attempts) |-> attempts[k].file]

AscendingPaths(seq) ==
    \A j \in 1..Len(seq) : \A k \in 1..Len(seq) : j < k => PathLess(seq[j], seq[k])

\* Two strings equal up to the case of their letters
EqualIgnoringCase(s, t) ==
    /\ Len(s) = Len(t)
    /\ \A k \in 1..Len(s) :
        \/ s[k] = t[k]
        \/ \E m \in 1..Len(UpperChars) : {s[k], t[k]} = {UpperChars[m], LowerChars[m]}

\* The name ends, after a non-empty stem, with an extension that is .jpg,
\* .jpeg or .png up to case
HasImageExtension(name) ==
    \E d \in 2..(Len(name) - 1) :
        /\ name[d] = "."
        /\ \A j \in (d+1)..Len(name) : name[j] # "."
        /\ \E f \in { <<".","j","p","g">>, <<".","j","p","e","g">>, <<".","p","n","g">> } :
              EqualIgnoringCase(SubSeq(name, d, Len(name)), f)

\* C1: whenever convert_all returns for a folder with at least one discovered
\* image, total = converted + failed, and total is the number of files
\* find_images returned.
C1_TotalIsConvertedPlusFailed ==
    (Returned /\ images # <<>>) =>
        /\ stats.total = stats.converted + stats.failed
        /\ stats.total = Len(images)

\* A run that returned with both a converted and a failed file
C1_Witness == Returned /\ stats.converted >= 1 /\ stats.failed >= 1

\* C2: convert_image is called on the discovered files one after the other in
\* ascending path order, each at most once, whatever the earlier results; when
\* convert_all returns every discovered file has been attempted exactly once.
C2_EveryFileAttemptedInOrder ==
    /\ Len(attempts) <= Len(images)
    /\ AttemptedFiles = SubSeq(images, 1, Len(attempts))
    /\ pc = "loop" => Len(attempts) = i - 1
    /\ AscendingPaths(images)
    /\ Returned => AttemptedFiles = images

\* A run that returned after its first file failed and a later one was attempted
C2_Witness ==
    /\ Returned
    /\ Len(attempts) >= 2
    /\ ~attempts[1].ok
    /\ attempts[2].ok

\* C3: a call of convert_image that returns false leaves the files of the
\* output folder as they were.
C3_FailureWritesNothing ==
    [][(pc = "loop" /\ Len(attempts') = Len(attempts) + 1
            /\ ~attempts'[Len(attempts')].ok)
        => outFiles' = outFiles]_vars

\* C4: the exit status is 0 when the quality is in range, the input folder is a
\* directory, the run was not interrupted and every discovered file was
\* converted, and 1 otherwise.
C4_ExitStatus ==
    pc = "exit" =>
        exitCode =
            IF /\ quality \in 0..100
               /\ inputKind = "dir"
               /\ ~cancelled
               /\ Returned
               /\ Len(attempts) = Len(images)
               /\ \A k \in 1..Len(attempts) : attempts[k].ok
            THEN 0 ELSE 1

\* A run that exits after one file converted and another failed
C4_Witness ==
    /\ pc = "exit"
    /\ ~cancelled
    /\ Returned
    /\ stats.converted >= 1
    /\ stats.failed >= 1

\* C5: when find_images returns nothing, convert_all returns zero statistics,
\* convert_image is not called and the output folder is as before the run; an
\* absent output folder stays absent.
C5_NothingFoundNothingDone ==
    (Returned /\ images = <<>>) =>
        /\ stats = [total |-> 0, converted |-> 0, failed |-> 0]
        /\ attempts = <<>>
        /\ outExists = startOut.exists
        /\ outFiles = startOut.files

\* A run that returned for a folder holding only entries that are no images,
\* with the output folder absent and creatable
C5_Witness ==
    /\ Returned
    /\ images = <<>>
    /\ entries # {}
    /\ ~startOut.exists
    /\ mkdirOk

\* C6: an invocation rejected for its quality or its input folder exits before
\* discovery, calls convert_image on nothing and leaves the output folder as
\* it was.
C6_RejectedTouchesNothing ==
    (pc = "exit" /\ (quality \notin 0..100 \/ inputKind # "dir")) =>
        /\ ~Returned
        /\ i = 0
        /\ images = <<>>
        /\ attempts = <<>>
        /\ outExists = startOut.exists
        /\ outFiles = startOut.files

\* A rejected quality on a folder that holds images, the output folder absent
C6_Witness ==
    /\ pc = "exit"
    /\ quality \notin 0..100
    /\ inputKind = "dir"
    /\ DataOf(entries) # {}
    /\ ~outExists
    /\ mkdirOk

\* C7: a second complete run on the same folders returns the statistics of the
\* first complete run and leaves the output folder with the same files and
\* contents.
C7_SecondRunSameResult ==
    (pc = "exit" /\ run = 2 /\ prev.done /\ Returned /\ ~cancelled) =>
        /\ stats = prev.stats
        /\ outExists = prev.exists
        /\ outFiles = prev.files

\* Two complete runs with a converted and a failed file each
C7_Witness ==
    /\ pc = "exit"
    /\ run = 2
    /\ prev.done
    /\ Returned
    /\ ~cancelled
    /\ stats.converted >= 1
    /\ stats.failed >= 1
    /\ DOMAIN outFiles # {}

\* C8: find_images returns the names of the immediate regular files whose
\* extension is .jpg, .jpeg or .png up to case, and nothing else, in strictly
\* ascending order.
C8_FindImagesExact ==
    pc \in {"loop", "report"} =>
        /\ { images[k] : k \in 1..Len(images) } =
              { e.name : e \in { x \in entries :
                    x.depth = 1 /\ x.kind = "file" /\ HasImageExtension(x.name) } }
        /\ AscendingPaths(images)

\* A folder with an upper-case image name, a lower-case one sorted after it,
\* and a directory
C8_Witness ==
    /\ pc = "loop"
    /\ Len(images) = 2
    /\ images[1] = BJpgUpper
    /\ \E e \in entries : e.kind = "dir"

\* C9: the mode handed to the encoder is RGBA for P and LA, RGB for RGB, RGBA
\* for RGBA and RGB for every other mode; it is always RGB or RGBA, and RGBA
\* whenever the source mode is P, LA or RGBA.
C9_ModeNormalization ==
    \A k \in 1..Len(attempts) :
        LET a == attempts[k] IN
        a.enc # "none" =>
            /\ a.enc = CASE a.src = "P" -> "RGBA"
                         [] a.src = "LA" -> "RGBA"
                         [] a.src = "RGB" -> "RGB"
                         [] a.src = "RGBA" -> "RGBA"
                         [] OTHER -> "RGB"
            /\ a.enc \in {"RGB", "RGBA"}
            /\ (a.src \in {"P", "LA", "RGBA"} => a.enc = "RGBA")
            /\ a.ok => outFiles[OutputFilename(a.file)].mode = a.enc

\* A grayscale+alpha image converted and written as RGBA
C9_Witness ==
    /\ Len(attempts) = 1
    /\ attempts[1].ok
    /\ attempts[1].src = "LA"
    /\ attempts[1].enc = "RGBA"

\* C10: after a complete first run into an empty or absent output folder in
\* which no file failed, the output folder holds as many files as were
\* converted.
C10_OneOutputPerConverted ==
    (pc = "exit" /\ run = 1 /\ Returned /\ ~cancelled
        /\ startOut.files = NoFiles /\ stats.failed = 0) =>
        Cardinality(DOMAIN outFiles) = stats.converted

====
